---- MODULE Spec2Model ----
(***************************************************************************)
(* A model of the diabetes-prediction web application: the embedded        *)
(* regression artifact (model_artifact.py) and the Flask request adapter   *)
(* (app.py).                                                               *)
(*                                                                         *)
(* Python values are modelled as follows.                                  *)
(*   - An optional value (x or None) is a sequence of length 0 or 1:       *)
(*     None is <<>> and a value v is <<v>>.                                *)
(*   - A form value (str) is a sequence of one-character strings, so that  *)
(*     float() is a real parser; messages are TLA+ strings built by        *)
(*     concatenation like the f-strings of the source.                     *)
(*   - A float is an integer number of units of 2^-FracBits whose          *)
(*     magnitude has at most MantBits significant bits: every arithmetic   *)
(*     result is rounded to the nearest such number, ties to even, as      *)
(*     IEEE-754 does for doubles (53 bits).  Addition is therefore not     *)
(*     associative, and the order of a summation is observable.            *)
(*   - A raised exception is a record [ok |-> FALSE, exc, msg].            *)
(***************************************************************************)
EXTENDS Integers, Sequences, FiniteSets, TLC

VARIABLES
    disk,               \* state of lasso_cv_diabetes_model.pkl beside app.py
    revision,           \* which text of app.py lines 100-103 the build holds
    startup,            \* position of the module-level code of app.py
    model,              \* app.model
    model_load_error,   \* app.model_load_error
    expected_features,  \* app.expected_features
    loads,              \* number of load attempts made so far
    req,                \* the requests: state, inputs and locals of index()
    call                \* one application of a pure function (harnesses)

vars == <<disk, revision, startup, model, model_load_error,
          expected_features, loads, req, call>>

-----------------------------------------------------------------------------
(* Bounds *)

\* significant bits of a float
MantBits == 4
\* fractional bits of a float: one unit is 2^-FracBits
FracBits == 4
\* requests one run of the server handles
NumRequests == 2
\* form fields that may hold something else than the default number
MaxOffending == 2
\* longest parameter sequence or row handed to the artifact directly
MaxFeatures == 2

-----------------------------------------------------------------------------
(* Optional values *)

None == <<>>
Some(v) == <<v>>
IsNone(o) == o = <<>>
Val(o) == o[1]

\* body applied to the value of v: a local name holding a computed value
With(v, body(_)) == CHOOSE result \in {body(x) : x \in {v}} : TRUE

-----------------------------------------------------------------------------
(* Floating-point arithmetic *)

Abs(a) == IF a < 0 THEN -a ELSE a

Unit == 2^FracBits

\* the least j >= i with a < bound * 2^(j - i)
RECURSIVE Exponent(_, _, _)
Exponent(a, bound, i) ==
    IF a < bound THEN i ELSE Exponent(a, 2 * bound, i + 1)

\* n/q (q > 0) rounded to the nearest integer, ties to even
RoundHalfEven(n, q) ==
    With(n \div q, LAMBDA lo :
    With(n % q, LAMBDA r :
        IF 2 * r < q THEN lo
        ELSE IF 2 * r > q THEN lo + 1
        ELSE IF lo % 2 = 0 THEN lo ELSE lo + 1))

\* the float nearest to n/d units (d > 0): the quotient is cut to MantBits
\* significant bits, 2^j being the weight of the last one kept
Fl(n, d) ==
    With(n, LAMBDA nv :
    With(Exponent(Abs(nv), (2^MantBits) * d, 0), LAMBDA j :
        RoundHalfEven(nv, d * (2^j)) * (2^j)))

FAdd(a, b) == Fl(a + b, 1)
FSub(a, b) == Fl(a - b, 1)
FMul(a, b) == Fl(a * b, Unit)
\* b # 0; Python raises ZeroDivisionError otherwise
FDiv(a, b) == IF b < 0 THEN Fl(-(a * Unit), -b) ELSE Fl(a * Unit, b)

\* the float a decimal literal n/d denotes
FloatLit(n, d) == Fl(n * Unit, d)

-----------------------------------------------------------------------------
(* Exceptions and results *)

Ok(v) == [ok |-> TRUE, value |-> v]
Raise(e, m) == [ok |-> FALSE, exc |-> e, msg |-> m]

\* str(int)
DigitChars == <<"0", "1", "2", "3", "4", "5", "6", "7", "8", "9">>
RECURSIVE IntToStr(_)
IntToStr(n) ==
    IF n < 0 THEN "-" \o IntToStr(-n)
    ELSE IF n < 10 THEN DigitChars[n + 1]
    ELSE IntToStr(n \div 10) \o DigitChars[(n % 10) + 1]

-----------------------------------------------------------------------------
(* float(str): the conversion of a form value *)

IsSpace(c) == c = " "
IsDigit(c) == c \in {"0", "1", "2", "3", "4", "5", "6", "7", "8", "9"}
DigitVal(c) == CHOOSE k \in 0..9 : DigitChars[k + 1] = c

RECURSIVE LStrip(_)
LStrip(s) == IF s # <<>> /\ IsSpace(Head(s)) THEN LStrip(Tail(s)) ELSE s

RECURSIVE RStrip(_)
RStrip(s) ==
    IF s # <<>> /\ IsSpace(s[Len(s)]) THEN RStrip(SubSeq(s, 1, Len(s) - 1)) ELSE s

\* number of leading decimal digits of s
RECURSIVE DigitsLen(_)
DigitsLen(s) == IF s # <<>> /\ IsDigit(Head(s)) THEN 1 + DigitsLen(Tail(s)) ELSE 0

\* the integer a sequence of digits denotes
RECURSIVE DigitsValue(_)
DigitsValue(s) ==
    IF s = <<>> THEN 0
    ELSE 10 * DigitsValue(SubSeq(s, 1, Len(s) - 1)) + DigitVal(s[Len(s)])

RECURSIVE Pow10(_)
Pow10(k) == IF k = 0 THEN 1 ELSE 10 * Pow10(k - 1)

\* float(raw) for a str: surrounding whitespace is dropped, then an optional
\* sign, then digits with at most one point and at least one digit.  The
\* exponent, underscore, "inf" and "nan" forms float() also accepts are not
\* among the values submitted (RawValues) and are left out.
float(raw) ==
    With(RStrip(LStrip(raw)), LAMBDA s :
    With(s # <<>> /\ Head(s) \in {"-", "+"}, LAMBDA signed :
    With(IF signed THEN Tail(s) ELSE s, LAMBDA body :
    With(DigitsLen(body), LAMBDA i :
    With(SubSeq(body, i + 1, Len(body)), LAMBDA rest :
    With(IF rest # <<>> /\ Head(rest) = "." THEN Tail(rest) ELSE rest, LAMBDA frac :
    With(DigitsLen(frac), LAMBDA j :
        IF j = Len(frac) /\ i + j > 0
        THEN With(FloatLit(DigitsValue(SubSeq(body, 1, i) \o frac), Pow10(j)),
                  LAMBDA mag : Ok(IF signed /\ Head(s) = "-" THEN -mag ELSE mag))
        ELSE Raise("ValueError", "could not convert string to float"))))))))

-----------------------------------------------------------------------------
(* app.py: the form fields *)

FEATURE_LABELS ==
    << <<"age", "Edad">>,
       <<"sex", "Sexo (1 = Hombre, 0 = Mujer)">>,
       <<"bmi", "Índice de Masa Corporal (IMC)">>,
       <<"bp", "Presión Arterial">>,
       <<"s1", "Colesterol Total">>,
       <<"s2", "Colesterol LDL">>,
       <<"s3", "Colesterol HDL">>,
       <<"s4", "Triglicéridos">>,
       <<"s5", "Nivel de Glucosa">>,
       <<"s6", "Nivel de Insulina">> >>

FieldAt(i) == FEATURE_LABELS[i][1]
FieldNames == {FieldAt(i) : i \in 1..Len(FEATURE_LABELS)}

\* ImmutableMultiDict.get: a form is a function from the keys it holds
FormGet(form_data, field) ==
    IF field \in DOMAIN form_data THEN Some(form_data[field]) ELSE None

MissingFieldMessage(field) == "El campo '" \o field \o "' es obligatorio."
\* Mutant of NotNumericMessage: the text of the missing-field message
NotNumericMessageCopied(field) == "El campo '" \o field \o "' es obligatorio."

NotNumericMessage(field) == "El valor de '" \o field \o "' debe ser numérico."
FeatureCountMessage(expected, actual) ==
    "El modelo fue entrenado con " \o IntToStr(expected)
        \o " características y recibió " \o IntToStr(actual) \o "."

\* Mutant of ParseLoop: every field is first checked for presence, and only
\* then are the values converted
RECURSIVE ParseLoopPresenceFirst(_, _, _)
ParseLoopPresenceFirst(form_data, i, features) ==
    IF i > Len(FEATURE_LABELS) THEN Ok(features)
    ELSE With({k \in i..Len(FEATURE_LABELS) :
                 FormGet(form_data, FieldAt(k)) \in {None, Some(<<>>)}},
              LAMBDA absent :
             IF absent # {}
             THEN Raise("ValueError", MissingFieldMessage(
                      FieldAt(CHOOSE k \in absent : \A l \in absent : k <= l)))
             ELSE With(float(Val(FormGet(form_data, FieldAt(i)))), LAMBDA parsed :
                      IF parsed.ok
                      THEN ParseLoopPresenceFirst(form_data, i + 1,
                               Append(features, parsed.value))
                      ELSE Raise("ValueError", NotNumericMessage(FieldAt(i)))))

\* Mutant of ParseLoop: only an absent field counts as missing, an empty one
\* is handed to float()
RECURSIVE ParseLoopEmptyConverted(_, _, _)
ParseLoopEmptyConverted(form_data, i, features) ==
    IF i > Len(FEATURE_LABELS) THEN Ok(features)
    ELSE With(FieldAt(i), LAMBDA field :
         With(FormGet(form_data, field), LAMBDA raw_value :
             IF raw_value = None
             THEN Raise("ValueError", MissingFieldMessage(field))
             ELSE With(float(Val(raw_value)), LAMBDA parsed :
                      IF parsed.ok
                      THEN ParseLoopEmptyConverted(form_data, i + 1,
                               Append(features, parsed.value))
                      ELSE Raise("ValueError", NotNumericMessage(field)))))

\* Mutant of ParseLoop: a value of nothing but spaces counts as missing too
RECURSIVE ParseLoopBlankMissing(_, _, _)
ParseLoopBlankMissing(form_data, i, features) ==
    IF i > Len(FEATURE_LABELS) THEN Ok(features)
    ELSE With(FieldAt(i), LAMBDA field :
         With(FormGet(form_data, field), LAMBDA raw_value :
             IF raw_value = None \/ LStrip(Val(raw_value)) = <<>>
             THEN Raise("ValueError", MissingFieldMessage(field))
             ELSE With(float(Val(raw_value)), LAMBDA parsed :
                      IF parsed.ok
                      THEN ParseLoopBlankMissing(form_data, i + 1,
                               Append(features, parsed.value))
                      ELSE Raise("ValueError", NotNumericMessage(field)))))

\* the loop of _parse_features from field i on
RECURSIVE ParseLoop(_, _, _)
ParseLoop(form_data, i, features) ==
    IF i > Len(FEATURE_LABELS) THEN Ok(features)
    ELSE With(FieldAt(i), LAMBDA field :
         With(FormGet(form_data, field), LAMBDA raw_value :
             IF raw_value = None \/ raw_value = Some(<<>>)
             THEN Raise("ValueError", MissingFieldMessage(field))
             ELSE With(float(Val(raw_value)), LAMBDA parsed :
                      IF parsed.ok
                      THEN ParseLoop(form_data, i + 1,
                               Append(features, parsed.value))
                      ELSE Raise("ValueError", NotNumericMessage(field)))))

\* Mutant of _parse_features: the count check compares with >=
_parse_features_ge(form_data, expected) ==
    With(ParseLoop(form_data, 1, <<>>), LAMBDA looped :
        IF ~looped.ok THEN looped
        ELSE IF Len(looped.value) >= expected
        THEN Raise("ValueError", FeatureCountMessage(expected, Len(looped.value)))
        ELSE looped)

\* _parse_features, which reads the global expected_features
_parse_features(form_data, expected) ==
    With(ParseLoop(form_data, 1, <<>>), LAMBDA looped :
        IF ~looped.ok THEN looped
        ELSE IF Len(looped.value) # expected
        THEN Raise("ValueError", FeatureCountMessage(expected, Len(looped.value)))
        ELSE looped)

-----------------------------------------------------------------------------
(* model_artifact.py: the embedded regression model *)

Min(a, b) == IF a < b THEN a ELSE b

\* EmbeddedRegressionModel.__init__
EmbeddedRegressionModel(feature_means, feature_scales, coefficients, intercept) ==
    IF ~(Len(feature_means) = Len(feature_scales)
            /\ Len(feature_scales) = Len(coefficients))
    THEN Raise("ValueError",
               "Los parámetros del modelo tienen longitudes incompatibles.")
    ELSE Ok([kind            |-> "EmbeddedRegressionModel",
             _feature_means  |-> feature_means,
             _feature_scales |-> feature_scales,
             _coefficients   |-> coefficients,
             _intercept      |-> intercept])

n_features_in_(m) == Len(m._coefficients)

\* _transform_row, consumed by list(): zip stops at the shortest sequence
RECURSIVE TransformLoop(_, _, _, _)
TransformLoop(m, row, i, out) ==
    IF i > Min(Len(row), Min(Len(m._feature_means), Len(m._feature_scales)))
    THEN Ok(out)
    ELSE IF m._feature_scales[i] = 0
    THEN Raise("ZeroDivisionError", "float division by zero")
    ELSE With(FDiv(FSub(row[i], m._feature_means[i]), m._feature_scales[i]),
              LAMBDA value : TransformLoop(m, row, i + 1, Append(out, value)))

_transform_row(m, row) == TransformLoop(m, row, 1, <<>>)

\* Mutant of AccumulateLoop: the terms are added from the last feature to
\* the first
RECURSIVE AccumulateLoopReversed(_, _, _, _)
AccumulateLoopReversed(transformed, coefficients, i, prediction) ==
    IF i > Min(Len(transformed), Len(coefficients)) THEN prediction
    ELSE With(Min(Len(transformed), Len(coefficients)) + 1 - i, LAMBDA k :
         With(FAdd(prediction, FMul(coefficients[k], transformed[k])),
              LAMBDA sum :
                  AccumulateLoopReversed(transformed, coefficients, i + 1, sum)))

\* the accumulation loop of predict
RECURSIVE AccumulateLoop(_, _, _, _)
AccumulateLoop(transformed, coefficients, i, prediction) ==
    IF i > Min(Len(transformed), Len(coefficients)) THEN prediction
    ELSE With(FAdd(prediction, FMul(coefficients[i], transformed[i])),
              LAMBDA sum : AccumulateLoop(transformed, coefficients, i + 1, sum))

\* the body of predict's loop for one row
PredictRow(m, row) ==
    IF Len(row) # n_features_in_(m)
    THEN Raise("ValueError", FeatureCountMessage(n_features_in_(m), Len(row)))
    ELSE With(_transform_row(m, row), LAMBDA transformed :
             IF ~transformed.ok THEN transformed
             ELSE Ok(AccumulateLoop(transformed.value, m._coefficients, 1,
                                    m._intercept)))

RECURSIVE PredictLoop(_, _, _, _)
PredictLoop(m, rows, k, predictions) ==
    IF k > Len(rows) THEN Ok(predictions)
    ELSE With(PredictRow(m, rows[k]), LAMBDA one :
             IF ~one.ok THEN one
             ELSE PredictLoop(m, rows, k + 1, Append(predictions, one.value)))

\* EmbeddedRegressionModel.predict
predict(m, rows) == PredictLoop(m, rows, 1, <<>>)

-----------------------------------------------------------------------------
(* model_artifact.py: the embedded parameters and load_model.  The decimal *)
(* literals are written with five decimals, which the float format rounds  *)
(* to the same floats as the full literals.                                *)

\* every literal has a magnitude below 1e-15; only its sign is kept
FEATURE_MEANS ==
    << FloatLit(-1, 100000), FloatLit(1, 100000), FloatLit(-1, 100000),
       FloatLit(-1, 100000), FloatLit(-1, 100000), FloatLit(1, 100000),
       FloatLit(-1, 100000), FloatLit(-1, 100000), FloatLit(1, 100000),
       FloatLit(1, 100000) >>

FEATURE_SCALES == [i \in 1..10 |-> FloatLit(4757, 100000)]

MODEL_COEFFICIENTS ==
    << FloatLit(-30892, 100000), FloatLit(-1122505, 100000),
       FloatLit(2481685, 100000), FloatLit(1527130, 100000),
       FloatLit(-2708541, 100000), FloatLit(1438623, 100000),
       FloatLit(0, 100000), FloatLit(683504, 100000),
       FloatLit(3186497, 100000), FloatLit(317904, 100000) >>

MODEL_INTERCEPT == FloatLit(15213348, 100000)

\* load_model of lines 105-114: the model built from the constants
load_model_embedded ==
    EmbeddedRegressionModel(FEATURE_MEANS, FEATURE_SCALES, MODEL_COEFFICIENTS,
                            MODEL_INTERCEPT)

\* The pickled StandardScaler + LassoCV pipeline: MODEL_BASE64, and the file
\* lasso_cv_diabetes_model.pkl.  It holds the parameters the constants were
\* exported from and predicts as the embedded model does.
Pipeline == [load_model_embedded.value EXCEPT !.kind = "Pipeline"]

\* load_model of lines 237-241: unpickling needs the pipeline's classes
load_model_base64(unpickles) ==
    IF unpickles THEN Ok(Pipeline)
    ELSE Raise("ModuleNotFoundError", "No module named 'sklearn'")

\* model_artifact.py holds two module texts, each defining load_model
ArtifactLoads ==
    {load_model_embedded, load_model_base64(TRUE), load_model_base64(FALSE)}

-----------------------------------------------------------------------------
(* app.py: module-level loading *)

MODEL_PATH == "/app/lasso_cv_diabetes_model.pkl"

DiskStates == {"absent", "corrupt", "valid"}

\* app.load_model(model_path)
load_model(model_path, file) ==
    IF file = "absent"
    THEN Raise("FileNotFoundError",
               "No se encontró el archivo del modelo en '" \o model_path \o "'.")
    ELSE IF file = "corrupt"
    THEN Raise("UnpicklingError", "invalid load key, 'x'.")
    ELSE Ok(Pipeline)

\* lines 38-50: the globals after the first try block
AfterArtifactLoad(loaded) ==
    IF loaded.ok
    THEN [model |-> Some(loaded.value), model_load_error |-> None,
          expected_features |-> n_features_in_(loaded.value)]
    ELSE [model |-> None, model_load_error |-> Some(loaded.msg),
          expected_features |-> Len(FEATURE_LABELS)]

\* lines 63-68: the globals after the second try block
AfterDiskLoad(g, file) ==
    LET loaded == load_model(MODEL_PATH, file)
    IN  IF loaded.ok
        THEN [g EXCEPT !.model = Some(loaded.value), !.model_load_error = None]
        ELSE [g EXCEPT !.model = None, !.model_load_error = Some(loaded.msg)]

-----------------------------------------------------------------------------
(* app.py: index *)

Revisions == {"load_error_or_fixed", "fixed"}

FixedUnavailableMessage ==
    "El modelo no se pudo cargar, por lo que no es posible realizar predicciones."

\* lines 100-103: the file holds two texts of this assignment
UnavailableMessage(rev, load_error) ==
    IF rev = "load_error_or_fixed" /\ load_error # None /\ Val(load_error) # ""
    THEN Val(load_error)
    ELSE FixedUnavailableMessage

\* lines 108-111: the message of a caught exception
CaughtMessage(raised) ==
    IF raised.exc = "ValueError" THEN raised.msg
    ELSE "No se pudo generar la predicción: " \o raised.msg

\* lines 106-111 after a successful parse: the response of the try block
PredictResponse(m, features, error_message) ==
    With(predict(m, <<features>>), LAMBDA predicted :
        IF predicted.ok
        THEN [prediction |-> Some(predicted.value[1]),
              error_message |-> error_message]
        ELSE [prediction |-> None,
              error_message |-> Some(CaughtMessage(predicted))])

\* index(): what render_template receives
index(method, form_data, g, rev) ==
    LET initial == [prediction |-> None, error_message |-> g.model_load_error]
    IN  IF method # "POST" THEN initial
        ELSE IF g.model = None
        THEN [initial EXCEPT
                !.error_message = Some(UnavailableMessage(rev, g.model_load_error))]
        ELSE With(_parse_features(form_data, g.expected_features), LAMBDA parsed :
                 IF ~parsed.ok
                 THEN [initial EXCEPT !.error_message = Some(CaughtMessage(parsed))]
                 ELSE PredictResponse(Val(g.model), parsed.value,
                                      initial.error_message))

-----------------------------------------------------------------------------
(* Inputs *)

\* the form value of a field left alone
DefaultRaw == <<"1">>

\* the values tried in a field: "", " ", "abc", " -2.5"
RawValues ==
    { <<>>, <<" ">>, <<"a", "b", "c">>, <<" ", "-", "2", ".", "5">> }

\* a field is absent (None) or holds one of RawValues
RawChoices == {None} \cup {Some(v) : v \in RawValues}

\* the form that changes the fields of S as chosen and submits DefaultRaw
\* in every other field
FormWith(S, chosen) ==
    [f \in {x \in FieldNames : x \notin S \/ chosen[x] # None} |->
        IF f \in S THEN Val(chosen[f]) ELSE DefaultRaw]

\* the sets of fields one form changes
OffendingSets == {T \in SUBSET FieldNames : Cardinality(T) <= MaxOffending}

\* the forms the server's requests submit
AppForms ==
    { FormWith({}, <<>>),
      FormWith({"age"}, [f \in {"age"} |-> Some(<<" ", "-", "2", ".", "5">>)]),
      FormWith({"bmi"}, [f \in {"bmi"} |-> None]),
      FormWith({"sex", "bmi"},
               [f \in {"sex", "bmi"} |->
                   IF f = "sex" THEN Some(<<" ">>) ELSE None]) }

EmptyForm == FormWith(FieldNames, [f \in FieldNames |-> None])

-----------------------------------------------------------------------------
(* The server: module-level loading, then requests handled by index().     *)
(* A request's handling is split where the source calls _parse_features    *)
(* and model.predict, so that requests interleave as under a threaded      *)
(* server.                                                                 *)

Requests == 1..NumRequests

Globals ==
    [model |-> model, model_load_error |-> model_load_error,
     expected_features |-> expected_features]

IdleRequest ==
    [state |-> "Idle", method |-> "", form |-> EmptyForm, features |-> None,
     prediction |-> None, error_message |-> None, parses |-> 0, predicts |-> 0]

Init ==
    /\ disk \in DiskStates
    /\ revision \in Revisions
    /\ startup = "load_artifact"
    /\ model = None
    /\ model_load_error = None
    /\ expected_features = Len(FEATURE_LABELS)
    /\ loads = 0
    /\ req = [r \in Requests |-> IdleRequest]
    /\ call = <<>>

\* lines 40-50
LoadArtifact ==
    /\ startup = "load_artifact"
    /\ \E g \in {AfterArtifactLoad(loaded) : loaded \in ArtifactLoads} :
          /\ model' = g.model
          /\ model_load_error' = g.model_load_error
          /\ expected_features' = g.expected_features
    /\ loads' = loads + 1
    /\ startup' = "load_disk"
    /\ UNCHANGED <<disk, revision, req, call>>

\* lines 63-68
LoadDisk ==
    /\ startup = "load_disk"
    /\ \E g \in {AfterDiskLoad(Globals, disk)} :
           /\ model' = g.model
           /\ model_load_error' = g.model_load_error
           /\ expected_features' = g.expected_features
    /\ loads' = loads + 1
    /\ startup' = "serving"
    /\ UNCHANGED <<disk, revision, req, call>>

\* Mutant of Unavailable: the handler tries the load from disk again
UnavailableRetry(r, form_data) ==
    /\ \E g \in {AfterDiskLoad(Globals, disk)} :
          /\ model' = g.model
          /\ model_load_error' = g.model_load_error
          /\ req' = [req EXCEPT ![r] =
                  [@ EXCEPT !.state = "Unavailable", !.method = "POST",
                            !.form = form_data,
                            !.error_message =
                                Some(UnavailableMessage(revision,
                                                        g.model_load_error))]]
    /\ loads' = loads + 1
    /\ UNCHANGED <<disk, revision, startup, expected_features, call>>

\* lines 99-103: a POST while model is None
Unavailable(r, form_data) ==
    /\ req' = [req EXCEPT ![r] =
            [@ EXCEPT !.state = "Unavailable", !.method = "POST",
                      !.form = form_data,
                      !.error_message =
                          Some(UnavailableMessage(revision, model_load_error))]]
    /\ UNCHANGED <<disk, revision, startup, model, model_load_error,
                   expected_features, loads, call>>

\* lines 95-98 and 113-118: a GET renders the form
Get(r) ==
    /\ req[r].state = "Idle"
    /\ startup = "serving"
    /\ req' = [req EXCEPT ![r] =
            [@ EXCEPT !.state = "Rendered", !.method = "GET",
                      !.error_message = model_load_error]]
    /\ UNCHANGED <<disk, revision, startup, model, model_load_error,
                   expected_features, loads, call>>

\* lines 95-104: a POST arrives
Post(r) ==
    /\ req[r].state = "Idle"
    /\ startup = "serving"
    /\ \E form_data \in AppForms :
          IF model = None
          THEN Unavailable(r, form_data)
          ELSE /\ req' = [req EXCEPT ![r] =
                      [@ EXCEPT !.state = "Parsing", !.method = "POST",
                                !.form = form_data,
                                !.error_message = model_load_error]]
               /\ UNCHANGED <<disk, revision, startup, model, model_load_error,
                              expected_features, loads, call>>

\* Mutant of Parse: a failed parse is reported and the handler goes on to
\* predict with no features
ParseContinue(r) ==
    /\ req[r].state = "Parsing"
    /\ \E parsed \in {_parse_features(req[r].form, expected_features)} :
           req' = [req EXCEPT ![r] =
              IF parsed.ok
              THEN [@ EXCEPT !.state = "Parsed", !.features = Some(parsed.value),
                             !.parses = @ + 1]
              ELSE [@ EXCEPT !.state = "Parsed", !.features = Some(<<>>),
                             !.error_message = Some(CaughtMessage(parsed)),
                             !.parses = @ + 1]]
    /\ UNCHANGED <<disk, revision, startup, model, model_load_error,
                   expected_features, loads, call>>

\* Mutant of Parse: the message of a failed parse is kept in the global
\* model_load_error
ParseLeaky(r) ==
    /\ req[r].state = "Parsing"
    /\ \E parsed \in {_parse_features(req[r].form, expected_features)} :
          /\ req' = [req EXCEPT ![r] =
                IF parsed.ok
                THEN [@ EXCEPT !.state = "Parsed", !.features = Some(parsed.value),
                               !.parses = @ + 1]
                ELSE [@ EXCEPT !.state = "ParseFailed",
                               !.error_message = Some(CaughtMessage(parsed)),
                               !.parses = @ + 1]]
          /\ model_load_error' = IF parsed.ok THEN model_load_error
                                 ELSE Some(CaughtMessage(parsed))
    /\ UNCHANGED <<disk, revision, startup, model, expected_features, loads, call>>

\* line 106, and lines 108-109 when it raises
Parse(r) ==
    /\ req[r].state = "Parsing"
    /\ \E parsed \in {_parse_features(req[r].form, expected_features)} :
           req' = [req EXCEPT ![r] =
              IF parsed.ok
              THEN [@ EXCEPT !.state = "Parsed", !.features = Some(parsed.value),
                             !.parses = @ + 1]
              ELSE [@ EXCEPT !.state = "ParseFailed",
                             !.error_message = Some(CaughtMessage(parsed)),
                             !.parses = @ + 1]]
    /\ UNCHANGED <<disk, revision, startup, model, model_load_error,
                   expected_features, loads, call>>

\* line 107: model.predict is called
BeginPredict(r) ==
    /\ req[r].state = "Parsed"
    /\ req' = [req EXCEPT ![r] = [@ EXCEPT !.state = "Predicting"]]
    /\ UNCHANGED <<disk, revision, startup, model, model_load_error,
                   expected_features, loads, call>>

\* line 107 returns, or lines 108-111 catch what it raised
Predict(r) ==
    /\ req[r].state = "Predicting"
    /\ \E response \in {PredictResponse(Val(model), Val(req[r].features),
                                         req[r].error_message)} :
           req' = [req EXCEPT ![r] =
              [@ EXCEPT !.state = IF response.prediction # None
                                  THEN "Predicted" ELSE "PredictFailed",
                        !.prediction = response.prediction,
                        !.error_message = response.error_message,
                        !.predicts = @ + 1]]
    /\ UNCHANGED <<disk, revision, startup, model, model_load_error,
                   expected_features, loads, call>>

Next ==
    \/ LoadArtifact
    \/ LoadDisk
    \/ \E r \in Requests : Get(r)
    \/ \E r \in Requests : Post(r)
    \/ \E r \in Requests : Parse(r)
    \/ \E r \in Requests : BeginPredict(r)
    \/ \E r \in Requests : Predict(r)

Spec == Init /\ [][Next]_vars

\* index runs to its return once it is entered
LiveSpec ==
    /\ Init
    /\ [][Next]_vars
    /\ \A r \in Requests :
          WF_vars(Parse(r)) /\ WF_vars(BeginPredict(r)) /\ WF_vars(Predict(r))

-----------------------------------------------------------------------------
(* One request against a started server: index() and _parse_features       *)
(* applied to every form that changes at most MaxOffending fields, in      *)
(* every state the module-level loading can leave.                         *)

\* the globals the module-level code can leave when the file is in state d
StartedGlobals(d) ==
    {AfterDiskLoad(AfterArtifactLoad(loaded), d) : loaded \in ArtifactLoads}

\* _parse_features reads expected_features alone, so it is applied in one
\* started state; index is applied in all of them
InitRequest ==
    /\ disk \in DiskStates
    /\ revision \in Revisions
    /\ startup = "serving"
    /\ \E g \in StartedGlobals(disk) :
          /\ model = g.model
          /\ model_load_error = g.model_load_error
          /\ expected_features = g.expected_features
    /\ loads = 2
    /\ req = <<>>
    /\ \E op \in {"index", "_parse_features"}, S \in OffendingSets :
          /\ op = "_parse_features" => disk = "valid" /\ revision = "fixed"
          /\ \E chosen \in [S -> RawChoices] :
                call = [op |-> op, form |-> FormWith(S, chosen), done |-> FALSE,
                        result |-> None]

CallIndex ==
    /\ call.op = "index"
    /\ ~call.done
    /\ \E response \in {index("POST", call.form, Globals, revision)} :
          call' = [call EXCEPT !.done = TRUE, !.result = Some(response)]
    /\ UNCHANGED <<disk, revision, startup, model, model_load_error,
                   expected_features, loads, req>>

CallParseFeatures ==
    /\ call.op = "_parse_features"
    /\ ~call.done
    /\ \E parsed \in {_parse_features(call.form, expected_features)} :
          call' = [call EXCEPT !.done = TRUE, !.result = Some(parsed)]
    /\ UNCHANGED <<disk, revision, startup, model, model_load_error,
                   expected_features, loads, req>>

NextRequest == CallIndex \/ CallParseFeatures

SpecRequest == InitRequest /\ [][NextRequest]_vars

-----------------------------------------------------------------------------
(* The artifact on its own: EmbeddedRegressionModel built from parameter   *)
(* sequences of any length up to MaxFeatures, and predict applied to rows. *)

SeqsUpTo(S, n) == UNION {[1..k -> S] : k \in 0..n}

MeanSamples == {Fl(0, 1), Fl(3, 1)}
ScaleSamples == {Fl(0, 1), Fl(6, 1)}
CoefficientSamples == {Fl(-5, 1), Fl(24, 1)}
InterceptSamples == {Fl(-7, 1), Fl(16, 1)}
RowSamples == {Fl(3, 1), Fl(21, 1)}

InitPredict ==
    /\ disk = "absent"
    /\ revision = "fixed"
    /\ startup = "artifact"
    /\ model = None
    /\ model_load_error = None
    /\ expected_features = Len(FEATURE_LABELS)
    /\ loads = 0
    /\ req = <<>>
    /\ \E means \in SeqsUpTo(MeanSamples, MaxFeatures),
          scales \in SeqsUpTo(ScaleSamples, MaxFeatures),
          coefficients \in SeqsUpTo(CoefficientSamples, MaxFeatures),
          intercept \in InterceptSamples,
          row \in SeqsUpTo(RowSamples, MaxFeatures),
          rows \in 0..2 :
          call = [op |-> "EmbeddedRegressionModel",
                  feature_means |-> means, feature_scales |-> scales,
                  coefficients |-> coefficients, intercept |-> intercept,
                  rows |-> [k \in 1..rows |-> row],
                  built |-> None, result |-> None]

Construct ==
    /\ call.op = "EmbeddedRegressionModel"
    /\ \E built \in {EmbeddedRegressionModel(
                          call.feature_means, call.feature_scales,
                          call.coefficients, call.intercept)} :
          call' = [call EXCEPT !.op = "predict", !.built = Some(built)]
    /\ UNCHANGED <<disk, revision, startup, model, model_load_error,
                   expected_features, loads, req>>

CallPredict ==
    /\ call.op = "predict"
    /\ Val(call.built).ok
    /\ \E predicted \in {predict(Val(call.built).value, call.rows)} :
          call' = [call EXCEPT !.op = "done", !.result = Some(predicted)]
    /\ UNCHANGED <<disk, revision, startup, model, model_load_error,
                   expected_features, loads, req>>

NextPredict == Construct \/ CallPredict

SpecPredict == InitPredict /\ [][NextPredict]_vars

-----------------------------------------------------------------------------
(* Properties of _parse_features and of one request (SpecRequest) *)

\* the field is absent from the form or empty
IsMissing(form_data, field) ==
    field \notin DOMAIN form_data \/ form_data[field] = <<>>

\* the field holds a value float() converts
IsNumeric(form_data, field) ==
    ~IsMissing(form_data, field) /\ float(form_data[field]).ok

\* the field holds a non-empty value float() rejects
IsNonNumeric(form_data, field) ==
    ~IsMissing(form_data, field) /\ ~float(form_data[field]).ok

\* the positions of the fields that are missing, empty or non-numeric
Offending(form_data) ==
    {i \in 1..Len(FEATURE_LABELS) : ~IsNumeric(form_data, FieldAt(i))}

\* position i is the first of the positions bad: every field before it is
\* present and numeric
IsFirst(bad, i) == i \in bad /\ \A k \in bad : i <= k

\* the form with every field after position i absent (v = None) or holding v
WithLaterFields(form_data, i, v) ==
    [f \in {x \in FieldNames :
               \/ x \in DOMAIN form_data /\ \A k \in (i + 1)..Len(FEATURE_LABELS) :
                                                 x # FieldAt(k)
               \/ v # None /\ \E k \in (i + 1)..Len(FEATURE_LABELS) : x = FieldAt(k)} |->
        IF \E k \in (i + 1)..Len(FEATURE_LABELS) : f = FieldAt(k)
        THEN Val(v) ELSE form_data[f]]

MissingField(field) == Raise("ValueError", MissingFieldMessage(field))
NotNumeric(field) == Raise("ValueError", NotNumericMessage(field))

ParseDone == call.op = "_parse_features" /\ call.done
IndexDone == call.op = "index" /\ call.done

\* the response of a POST handled while the model is None
UnavailableResponse ==
    [prediction |-> None,
     error_message |-> Some(UnavailableMessage(revision, model_load_error))]

\* C10: _parse_features examines the fields in the order of FEATURE_LABELS and
\* stops at the first field that is missing, empty or non-numeric: it fails
\* for that field, with the missing-field message if the field is absent or
\* empty and the not-numeric message otherwise, whatever any later field
\* holds; when no field offends it returns the ten converted numbers in order.
C10_FirstOffendingField ==
    ParseDone =>
        LET form_data == call.form
            bad       == Offending(form_data)
            result    == Val(call.result)
        IN  IF bad = {}
            THEN result = Ok([i \in 1..Len(FEATURE_LABELS) |->
                                float(form_data[FieldAt(i)]).value])
            ELSE LET first == CHOOSE i \in bad : \A k \in bad : i <= k
                 IN  /\ result = IF IsMissing(form_data, FieldAt(first))
                                 THEN MissingField(FieldAt(first))
                                 ELSE NotNumeric(FieldAt(first))
                     /\ \A v \in RawChoices \cup {Some(DefaultRaw)} :
                            _parse_features(WithLaterFields(form_data, first, v),
                                            expected_features) = result

\* C10 witness: a non-numeric field followed by a missing one, reported as
\* not numeric
C10_Witness ==
    /\ ParseDone
    /\ IsNonNumeric(call.form, "bmi")
    /\ IsMissing(call.form, "s5")
    /\ Val(call.result) = NotNumeric("bmi")

\* C4 as stated: a missing or empty field makes _parse_features fail with the
\* missing-field error of that field whatever the other fields hold, and the
\* response of the POST carries that message and no prediction.
C4_MissingWhateverOthers ==
    call.done =>
        \A field \in FieldNames :
            IsMissing(call.form, field) =>
                /\ call.op = "_parse_features" =>
                       Val(call.result) = MissingField(field)
                /\ call.op = "index" =>
                       Val(call.result) =
                           [prediction |-> None,
                            error_message |-> Some(MissingFieldMessage(field))]

\* C4 amended: a missing or empty field makes _parse_features fail with the
\* missing-field error of that field when every field before it is present
\* and numeric, whatever the later fields hold; the response of the POST then
\* carries that message and no prediction if the model is loaded, and the
\* model-unavailable message and no prediction if it is not.
C4_MissingAfterNumericFields ==
    call.done =>
        LET bad == Offending(call.form)
        IN  \A i \in bad :
                (IsMissing(call.form, FieldAt(i)) /\ IsFirst(bad, i)) =>
                    /\ call.op = "_parse_features" =>
                           Val(call.result) = MissingField(FieldAt(i))
                    /\ call.op = "index" =>
                           Val(call.result) =
                               IF model # None
                               THEN [prediction |-> None,
                                     error_message |->
                                         Some(MissingFieldMessage(FieldAt(i)))]
                               ELSE UnavailableResponse

\* C4 witness: bmi is empty, a later field is not numeric, and the response
\* of the POST names bmi
C4_Witness ==
    /\ IndexDone
    /\ model # None
    /\ "bmi" \in DOMAIN call.form /\ call.form["bmi"] = <<>>
    /\ IsNonNumeric(call.form, "s6")
    /\ Val(call.result).error_message = Some("El campo 'bmi' es obligatorio.")
    /\ Val(call.result).prediction = None

\* C5 as stated: a field whose value is present and not convertible to a
\* float makes _parse_features fail with the not-numeric error of that field.
C5_NotNumericWhateverOthers ==
    ParseDone =>
        \A field \in FieldNames :
            IsNonNumeric(call.form, field) =>
                Val(call.result) = NotNumeric(field)

\* C5 amended: at each of the ten positions, a field whose value is not empty
\* and not convertible to a float makes _parse_features fail with the
\* not-numeric error of that field when every field before it is present and
\* numeric.
C5_NotNumericAfterNumericFields ==
    ParseDone =>
        LET bad == Offending(call.form)
        IN  \A i \in bad :
                (IsNonNumeric(call.form, FieldAt(i)) /\ IsFirst(bad, i)) =>
                    Val(call.result) = NotNumeric(FieldAt(i))

\* C5 witness: the last field holds a blank, which is not a number
C5_Witness ==
    /\ ParseDone
    /\ "s6" \in DOMAIN call.form /\ call.form["s6"] = <<" ">>
    /\ Val(call.result) = Raise("ValueError", "El valor de 's6' debe ser numérico.")

\* C3: with the model loaded, a POST ends with a prediction or with an error
\* message and never with both or neither, and a POST whose ten fields are
\* all present and numeric ends with a prediction and no error message.
C3_PredictionOrError ==
    (IndexDone /\ model # None) =>
        LET response == Val(call.result)
        IN  /\ (response.prediction # None) # (response.error_message # None)
            /\ Offending(call.form) = {} =>
                   /\ response.prediction # None
                   /\ response.error_message = None

\* C3 witness: a POST of ten numbers, not all the default one, has a prediction
C3_Witness ==
    /\ IndexDone
    /\ model # None
    /\ Offending(call.form) = {}
    /\ call.form["age"] = <<" ", "-", "2", ".", "5">>
    /\ Val(call.result).prediction # None
    /\ Val(call.result).error_message = None

\* the failure kinds of a request, and the texts each kind can carry
FailureKinds ==
    {"ArtifactUnavailable", "MissingField", "NotNumeric", "FeatureCountMismatch",
     "PredictionFailure"}

UnavailableMessages ==
    {UnavailableMessage(rev, Some(load_model(MODEL_PATH, file).msg)) :
        rev \in Revisions, file \in DiskStates \ {"valid"}}
MissingFieldMessages == {MissingFieldMessage(f) : f \in FieldNames}
NotNumericMessages == {NotNumericMessage(f) : f \in FieldNames}
FeatureCountMessages ==
    {FeatureCountMessage(e, a) : e \in 0..(2 * Len(FEATURE_LABELS)),
                                 a \in 0..(2 * Len(FEATURE_LABELS))}
PredictionFailureMessages ==
    {CaughtMessage(Raise("ZeroDivisionError", "float division by zero"))}

Messages(kind) ==
    CASE kind = "ArtifactUnavailable" -> UnavailableMessages
      [] kind = "MissingField" -> MissingFieldMessages
      [] kind = "NotNumeric" -> NotNumericMessages
      [] kind = "FeatureCountMismatch" -> FeatureCountMessages
      [] kind = "PredictionFailure" -> PredictionFailureMessages

\* the failure kind the handler's path through index decides for a form
FailureKind(form_data) ==
    IF model = None THEN "ArtifactUnavailable"
    ELSE IF Offending(form_data) = {}
    THEN IF Len(FEATURE_LABELS) # expected_features THEN "FeatureCountMismatch"
         ELSE "PredictionFailure"
    ELSE LET first == CHOOSE i \in Offending(form_data) :
                         \A k \in Offending(form_data) : i <= k
         IN  IF IsMissing(form_data, FieldAt(first)) THEN "MissingField"
             ELSE "NotNumeric"

-----------------------------------------------------------------------------
(* Properties of the process: startup and the requests it serves (Spec)    *)

\* C2 as stated: with valid embedded constants, after startup the model is
\* loaded and no POST is answered with the model-unavailable outcome, whether
\* or not the model file is on disk.
C2_LoadFailureUnreachable ==
    (load_model_embedded.ok /\ startup = "serving") =>
        /\ model # None
        /\ \A r \in Requests : req[r].state # "Unavailable"

\* what C1 requires of a state once the load has failed
C1_State ==
    (startup = "serving" /\ model = None) =>
        /\ loads = 2
        /\ \A r \in Requests :
              req[r].method = "POST" =>
                  /\ req[r].state = "Unavailable"
                  /\ req[r].prediction = None
                  /\ req[r].parses = 0 /\ req[r].predicts = 0
                  /\ req[r].error_message # None
                  /\ Val(req[r].error_message) # ""
                  /\ Val(req[r].error_message) \in
                         {FixedUnavailableMessage} \cup
                         {Val(e) : e \in {model_load_error} \ {None}}
        /\ \A r1, r2 \in Requests :
              (req[r1].method = "POST" /\ req[r2].method = "POST") =>
                  req[r1].error_message = req[r2].error_message

\* what C1 requires of a step once the load has failed
C1_Step ==
    (startup = "serving" /\ model = None) =>
        /\ UNCHANGED <<startup, model, model_load_error, loads>>
        /\ \A r \in Requests :
              req[r].state = "Unavailable" => req'[r] = req[r]

MachineStates ==
    {"Parsing", "Parsed", "ParseFailed", "Predicting", "Predicted", "PredictFailed"}
TerminalStates == {"ParseFailed", "PredictFailed", "Predicted"}
AllowedTransitions ==
    {<<"Idle", "Parsing">>, <<"Parsing", "ParseFailed">>, <<"Parsing", "Parsed">>,
     <<"Parsed", "Predicting">>, <<"Predicting", "PredictFailed">>,
     <<"Predicting", "Predicted">>}

\* what C7 requires of a state
C7_State ==
    \A r \in Requests :
        (req[r].method = "POST" /\ model # None) =>
            /\ req[r].state \in MachineStates
            /\ req[r].parses <= 1 /\ req[r].predicts <= 1
            /\ req[r].parses = (IF req[r].state = "Parsing" THEN 0 ELSE 1)
            /\ req[r].predicts =
                   (IF req[r].state \in {"Predicted", "PredictFailed"} THEN 1 ELSE 0)
            /\ req[r].state \in {"Parsed", "Predicting", "Predicted", "PredictFailed"}
                   => _parse_features(req[r].form, expected_features).ok
            /\ req[r].state = "ParseFailed" =>
                   ~_parse_features(req[r].form, expected_features).ok

\* what C7 requires of a step
C7_Step ==
    model # None =>
        \A r \in {q \in Requests : req'[q].method = "POST"} :
            /\ req'[r].state # req[r].state =>
                   <<req[r].state, req'[r].state>> \in AllowedTransitions
            /\ req[r].state \in TerminalStates => req'[r] = req[r]

\* C7: with the model loaded, a POST moves only along Idle -> Parsing ->
\* {ParseFailed | Parsed} and Parsed -> Predicting -> {PredictFailed |
\* Predicted}; predict is not called after a failed parse, parsing and predict
\* each run at most once, and the request ends in one of ParseFailed,
\* PredictFailed, Predicted and stays there.
C7_RequestStateMachine ==
    /\ [](C7_State)
    /\ [][C7_Step]_vars
    /\ \A r \in Requests :
          (req[r].state = "Parsing") ~> (req[r].state \in TerminalStates)

\* C7 witness: one POST ended Predicted after one parse and one predict, the
\* other ended ParseFailed with no predict
C7_Witness ==
    /\ model # None
    /\ req[1].state = "Predicted" /\ req[1].parses = 1 /\ req[1].predicts = 1
    /\ req[2].state = "ParseFailed" /\ req[2].parses = 1 /\ req[2].predicts = 0

FinishedStates == TerminalStates \cup {"Rendered", "Unavailable"}

\* what C8 requires of a state: a finished request has the response index
\* computes from its own method and form and the state startup left
C8_State ==
    \A r \in Requests :
        req[r].state \in FinishedStates =>
            [prediction |-> req[r].prediction,
             error_message |-> req[r].error_message]
                = index(req[r].method, req[r].form, Globals, revision)

\* what C8 requires of a step
C8_Step ==
    startup = "serving" =>
        UNCHANGED <<model, model_load_error, expected_features, disk, revision>>

\* C8: no GET or POST, succeeding or failing, changes the model, the
\* remembered load error or the expected feature count that startup set, and
\* the response of a request is a function of its own method and form alone,
\* whatever other requests ran before or alongside it.
C8_SharedStateUnchanged == [](C8_State) /\ [][C8_Step]_vars

\* C8 witness: a POST that failed in parsing finished before a POST that
\* got its prediction, and the globals are those startup left
C8_Witness ==
    /\ req[1].state = "ParseFailed"
    /\ req[2].state = "Predicted"
    /\ req[2].error_message = None
    /\ Globals \in StartedGlobals("valid")

-----------------------------------------------------------------------------
(* Properties of EmbeddedRegressionModel.predict (SpecPredict) *)

\* coefficient_i * ((row[i] - mean_i) / scale_i)
Term(m, row, i) ==
    FMul(m._coefficients[i],
         FDiv(FSub(row[i], m._feature_means[i]), m._feature_scales[i]))

\* the intercept plus the first k terms, added one after the other in index
\* order
RECURSIVE InterceptPlusTerms(_, _, _)
InterceptPlusTerms(m, row, k) ==
    IF k = 0 THEN m._intercept
    ELSE FAdd(InterceptPlusTerms(m, row, k - 1), Term(m, row, k))

PredictDone == call.op = "done"

\* the rows have the model's length and no scale is zero
WellFormedCall ==
    LET m == Val(call.built).value
    IN  /\ \A k \in 1..Len(call.rows) : Len(call.rows[k]) = n_features_in_(m)
        /\ \A i \in 1..n_features_in_(m) : m._feature_scales[i] # 0

\* C9: for rows of the model's length N (and non-zero scales), predict
\* returns for each row the intercept plus the terms coefficient_i *
\* ((row[i] - mean_i) / scale_i) added in index order starting from the
\* intercept, as computed, with nothing applied afterwards; a row equal to
\* the means yields the intercept.
C9_InterceptPlusWeightedSum ==
    (PredictDone /\ WellFormedCall) =>
        LET m      == Val(call.built).value
            result == Val(call.result)
        IN  /\ result.ok
            /\ Len(result.value) = Len(call.rows)
            /\ \A k \in 1..Len(call.rows) :
                  /\ result.value[k] =
                         InterceptPlusTerms(m, call.rows[k], n_features_in_(m))
                  /\ call.rows[k] = m._feature_means =>
                         result.value[k] = m._intercept

\* C9 witness: two features, a row away from the means, and a prediction
\* that adding the terms in the other order would not give
C9_Witness ==
    /\ PredictDone
    /\ WellFormedCall
    /\ n_features_in_(Val(call.built).value) = 2
    /\ Len(call.rows) >= 1
    /\ LET m   == Val(call.built).value
           row == call.rows[1]
       IN  /\ row # m._feature_means
           /\ Val(call.result).value[1] #
                  FAdd(FAdd(m._intercept, Term(m, row, 2)), Term(m, row, 1))

====
